---- MODULE Spec2Model ----
(***************************************************************************)
(* WeatherRecorder: the serial poller thread (ArduinoInterface) and the    *)
(* recording controller (WeatherGUI) of src/weather.py.                    *)
(*                                                                         *)
(* Text is modelled as sequences of one-character strings.  The worker     *)
(* thread and the UI thread interleave; signals emitted by the worker are  *)
(* queued to the UI thread's event queue and handled there one at a time.  *)
(*                                                                         *)
(* start_recording and stop_recording are modelled as the slots they are:  *)
(* each may be invoked in any recording state while the window is open.    *)
(* Neither handler ever changes the enabled state of a button (see         *)
(* SetButtons), so Record stays clickable while Recording.                 *)
(***************************************************************************)
EXTENDS Integers, Sequences, FiniteSets, TLC

VARIABLES
    pc,          \* position of ArduinoInterface.run: start, settle, loop, aborted, done
    running,     \* ArduinoInterface.running
    ser,         \* ArduinoInterface.ser: "none", "open" or "closed"
    reads,       \* history: outcome of every read of the polling loop (a line or ReadError)
    queue,       \* signal emissions posted to the UI thread, not yet handled
    delivered,   \* history: the samples update_display has been called with
    recording,   \* WeatherGUI.recording
    csv_file,    \* WeatherGUI.csv_file: None or a file object [name, closed]
    csv_writer,  \* WeatherGUI.csv_writer: None or the name of the file it writes to
    buttons,     \* enabled state of the button attributes setup_ui created
    errors,      \* messages shown by show_error
    ui,          \* UI thread: "running", "joining" (inside worker.stop()), "closed"
    files,       \* the output directory: file name -> rows written
    dirExists,   \* whether the output directory exists
    now,         \* wall clock, in ticks
    sent,        \* bytes written to the device through ser.write
    trace,       \* the statements the UI handler that ran last executed, in order
    startIdx,    \* history: Len(delivered) when the current csv_file was opened
    clicks       \* number of Record / Stop invocations so far

vars == <<pc, running, ser, reads, queue, delivered, recording, csv_file,
          csv_writer, buttons, errors, ui, files, dirExists, now, sent, trace,
          startIdx, clicks>>

guiVars    == <<recording, csv_file, csv_writer, buttons, errors, files, sent,
                trace, startIdx, clicks, delivered>>

-----------------------------------------------------------------------------
(* Bounds of the model *)

MaxReads == 2          \* reads the polling loop performs
MaxClicks == 3         \* Record / Stop invocations
MaxTime == 2           \* last clock tick
TicksPerSecond == 2    \* clock ticks per second of time.strftime's resolution
MaxLineLen == 7        \* longest line of the parser specification

\* Python's None; a read of the polling loop that raised
None == <<>>
ReadError == <<"ReadError">>

-----------------------------------------------------------------------------
(* Text helpers: bytes.decode, str.strip, str.split, float *)

BadByte == "?"
Whitespace == {" ", "\n", "\r", "\t"}
Digits == {"0", "1", "2", "3", "4", "5", "6", "7", "8", "9"}

DigitVal(c) ==
    CASE c = "0" -> 0 [] c = "1" -> 1 [] c = "2" -> 2 [] c = "3" -> 3
      [] c = "4" -> 4 [] c = "5" -> 5 [] c = "6" -> 6 [] c = "7" -> 7
      [] c = "8" -> 8 [] c = "9" -> 9

\* bytes.decode('utf-8', errors='ignore'): undecodable bytes are dropped
Decode(bytes) == SelectSeq(bytes, LAMBDA b : b # BadByte)

RECURSIVE LStrip(_)
LStrip(s) ==
    IF s # <<>> /\ Head(s) \in Whitespace THEN LStrip(Tail(s)) ELSE s

RECURSIVE RStrip(_)
RStrip(s) ==
    IF s # <<>> /\ s[Len(s)] \in Whitespace
    THEN RStrip(SubSeq(s, 1, Len(s) - 1))
    ELSE s

\* str.strip()
Strip(s) == LStrip(RStrip(s))

\* str.split(','): always at least one field
RECURSIVE Split(_)
Split(s) ==
    IF \E i \in 1..Len(s) : s[i] = ","
    THEN LET i == CHOOSE k \in 1..Len(s) :
                      s[k] = "," /\ \A j \in 1..(k - 1) : s[j] # ","
         IN  <<SubSeq(s, 1, i - 1)>> \o Split(SubSeq(s, i + 1, Len(s)))
    ELSE <<s>>

RECURSIVE DigitsToInt(_)
DigitsToInt(s) ==
    IF s = <<>> THEN 0
    ELSE 10 * DigitsToInt(SubSeq(s, 1, Len(s) - 1)) + DigitVal(s[Len(s)])

\* Python numbers: the int n, and the float num / 10^scale (neg keeps -0.0)
PyInt(n) == [kind |-> "int", neg |-> n < 0, num |-> IF n < 0 THEN -n ELSE n, scale |-> 0]
PyFloat(neg, num, scale) == [kind |-> "float", neg |-> neg, num |-> num, scale |-> scale]

\* a decimal without trailing zeros in its fraction: 23.50 is 23.5
RECURSIVE Normalise(_)
Normalise(v) ==
    IF v.scale > 0 /\ v.num % 10 = 0
    THEN Normalise([v EXCEPT !.num = v.num \div 10, !.scale = v.scale - 1])
    ELSE v

\* float(s) for decimal literals: surrounding whitespace and an optional sign
\* are accepted, then digits with at most one point and at least one digit.
\* The result is [ok |-> FALSE] for ValueError.
Float(s) ==
    LET t      == Strip(s)
        signed == t # <<>> /\ Head(t) \in {"+", "-"}
        body   == IF signed THEN Tail(t) ELSE t
        points == {i \in 1..Len(body) : body[i] = "."}
        digs   == SelectSeq(body, LAMBDA c : c \in Digits)
        wellFormed ==
            /\ \A i \in 1..Len(body) : body[i] \in Digits \cup {"."}
            /\ Cardinality(points) <= 1
            /\ digs # <<>>
        scale  == IF points = {} THEN 0
                  ELSE Len(body) - (CHOOSE i \in points : TRUE)
    IN  IF wellFormed
        THEN [ok  |-> TRUE,
              val |-> Normalise(PyFloat(signed /\ Head(t) = "-",
                                        DigitsToInt(digs), scale))]
        ELSE [ok |-> FALSE]

-----------------------------------------------------------------------------
(* ArduinoInterface.run, lines 36-47: what one line read makes the loop emit *)

\* variants of ParseLine with one slip each
ParseLineDupField(raw) ==
    LET line  == Strip(Decode(raw))
        parts == Split(line)
    IN  IF Len(parts) = 4
        THEN LET t == Float(parts[2])
                 h == Float(parts[2])
                 p == Float(parts[4])
             IN  IF t.ok /\ h.ok /\ p.ok
                 THEN <<  <<parts[1], t.val, h.val, p.val>>  >>
                 ELSE <<  <<parts[1], PyInt(-1), PyInt(-1), PyInt(-1)>>  >>
        ELSE <<>>

ParseLineAtLeast4(raw) ==
    LET line  == Strip(Decode(raw))
        parts == Split(line)
    IN  IF Len(parts) >= 4
        THEN LET t == Float(parts[2])
                 h == Float(parts[3])
                 p == Float(parts[4])
             IN  IF t.ok /\ h.ok /\ p.ok
                 THEN <<  <<parts[1], t.val, h.val, p.val>>  >>
                 ELSE <<  <<parts[1], PyInt(-1), PyInt(-1), PyInt(-1)>>  >>
        ELSE <<>>

ParseLineDropBad(raw) ==
    LET line  == Strip(Decode(raw))
        parts == Split(line)
    IN  IF Len(parts) = 4
        THEN LET t == Float(parts[2])
                 h == Float(parts[3])
                 p == Float(parts[4])
             IN  IF t.ok /\ h.ok /\ p.ok
                 THEN <<  <<parts[1], t.val, h.val, p.val>>  >>
                 ELSE <<>>
        ELSE <<>>

ParseLine(raw) ==
    LET line  == Strip(Decode(raw))
        parts == Split(line)
    IN  IF Len(parts) = 4
        THEN LET t == Float(parts[2])
                 h == Float(parts[3])
                 p == Float(parts[4])
             IN  IF t.ok /\ h.ok /\ p.ok
                 THEN <<  <<parts[1], t.val, h.val, p.val>>  >>
                 ELSE <<  <<parts[1], PyInt(-1), PyInt(-1), PyInt(-1)>>  >>
        ELSE <<>>

\* a queue that hands over the newest emission first
PostFront(q, ev) == <<ev>> \o q

\* Signal.emit across threads: the call is appended to the receiver's event queue
Post(q, ev) == Append(q, ev)

RECURSIVE PostAll(_, _)
PostAll(q, samples) ==
    IF samples = <<>> THEN q
    ELSE PostAll(Post(q, <<"data", Head(samples)>>), Tail(samples))

-----------------------------------------------------------------------------
(* The device and the environment *)

LineOK    == <<"O", "K", ",", "2", "3", ".", "5", "0", ",", "4", "5", ".", "1",
               ",", "1", "0", "1", "3", "\r", "\n">>
LineBad   == <<"O", "K", ",", "b", "a", "d", ",", "4", "5", ".", "1", ",",
               "1", "0", "1", "3", "\r", "\n">>
LineShort == <<"O", "K", ",", "2", "3", BadByte, "\r", "\n">>

\* what the device sends in the full specification
DeviceLines == {LineOK, LineBad, LineShort}

\* time.strftime: the clock at a resolution of one second
StrfTime(t) == t \div TicksPerSecond

\* f"{time.strftime('%Y%m%d_%H%M%S')}_weather.csv"
FileName(t) == <<StrfTime(t), "_weather.csv">>

Header == <<"Timestamp", "Temperature_C", "Humidity_Pct", "Pressure_hPa">>

\* a row with two columns exchanged
RowSwapped(t, data) == <<StrfTime(t), data[3], data[2], data[4]>>

\* [current_time, data[1], data[2], data[3]]
Row(t, data) == <<StrfTime(t), data[2], data[3], data[4]>>

-----------------------------------------------------------------------------
(* Initial state: after WeatherGUI.__init__ has run and worker.start() returned *)

Init ==
    /\ pc = "start"
    /\ running = TRUE
    /\ ser = "none"
    /\ reads = <<>>
    /\ queue = <<>>
    /\ delivered = <<>>
    /\ recording = FALSE
    /\ csv_file = None
    /\ csv_writer = None
    /\ buttons = [record_btn |-> TRUE, stop_btn |-> FALSE]
    /\ errors = <<>>
    /\ ui = "running"
    /\ files = <<>>
    /\ dirExists = TRUE
    /\ now = 0
    /\ sent = <<>>
    /\ trace = <<>>
    /\ startIdx = 0
    /\ clicks = 0

-----------------------------------------------------------------------------
(* ArduinoInterface.run, the worker thread *)

\* serial.Serial(...) succeeds
OpenOk ==
    /\ pc = "start"
    /\ ser' = "open"
    /\ pc' = "settle"
    /\ UNCHANGED <<running, reads, queue, ui, dirExists, now>>
    /\ UNCHANGED guiVars

\* a failed open that is tried again
OpenFailRetry ==
    /\ pc = "start"
    /\ queue' = Post(queue, <<"error", "open failed">>)
    /\ pc' = "start"
    /\ UNCHANGED <<running, ser, reads, ui, dirExists, now>>
    /\ UNCHANGED guiVars

\* serial.Serial(...) raises: error_occurred is emitted and run returns
OpenFail ==
    /\ pc = "start"
    /\ queue' = Post(queue, <<"error", "open failed">>)
    /\ pc' = "aborted"
    /\ UNCHANGED <<running, ser, reads, ui, dirExists, now>>
    /\ UNCHANGED guiVars

\* time.sleep(2) is over
Settle ==
    /\ pc = "settle"
    /\ pc' = "loop"
    /\ UNCHANGED <<running, ser, reads, queue, ui, dirExists, now>>
    /\ UNCHANGED guiVars

\* one iteration with nothing waiting: in_waiting is 0
PollNoData ==
    /\ pc = "loop"
    /\ running
    /\ UNCHANGED vars

\* one iteration that reads a line of `lines`
PollRead(lines) ==
    /\ pc = "loop"
    /\ running
    /\ Len(reads) < MaxReads
    /\ \E line \in lines :
          /\ reads' = Append(reads, line)
          /\ queue' = PostAll(queue, ParseLine(line))
    /\ UNCHANGED <<pc, running, ser, ui, dirExists, now>>
    /\ UNCHANGED guiVars

\* a read error handled like the open failure: reported, and run returns
PollErrorFatal ==
    /\ pc = "loop"
    /\ running
    /\ Len(reads) < MaxReads
    /\ reads' = Append(reads, ReadError)
    /\ queue' = Post(queue, <<"error", "read failed">>)
    /\ pc' = "aborted"
    /\ UNCHANGED <<running, ser, ui, dirExists, now>>
    /\ UNCHANGED guiVars

\* one iteration in which in_waiting or readline raises: except Exception: pass
PollError ==
    /\ pc = "loop"
    /\ running
    /\ Len(reads) < MaxReads
    /\ reads' = Append(reads, ReadError)
    /\ UNCHANGED <<pc, running, ser, queue, ui, dirExists, now>>
    /\ UNCHANGED guiVars

\* a loop exit that leaves the port as it is
ExitLoopNoClose ==
    /\ pc = "loop"
    /\ ~running
    /\ pc' = "done"
    /\ UNCHANGED <<running, ser, reads, queue, ui, dirExists, now>>
    /\ UNCHANGED guiVars

\* the while condition is false: close the port, run returns
ExitLoop ==
    /\ pc = "loop"
    /\ ~running
    /\ ser' = IF ser = "open" THEN "closed" ELSE ser
    /\ pc' = "done"
    /\ UNCHANGED <<running, reads, queue, ui, dirExists, now>>
    /\ UNCHANGED guiVars

-----------------------------------------------------------------------------
(* WeatherGUI, the UI thread.  A slot that raises leaves the statements     *)
(* after the raise unexecuted; the event loop goes on.                      *)

\* send_command without its test of the port
SendCommandUnguarded(port, command) == <<command>>

\* ArduinoInterface.send_command, called from the UI thread: what is written
\* to the device, given the port state
SendCommand(port, command) ==
    IF port = "open" THEN <<command>> ELSE <<>>

\* the setEnabled calls ending start_recording and stop_recording: the first
\* attribute that does not exist raises AttributeError
SetButtons(b, record, stop) ==
    IF "btn_record" \notin DOMAIN b THEN b
    ELSE IF "btn_stop" \notin DOMAIN b THEN [b EXCEPT !["btn_record"] = record]
    ELSE [b EXCEPT !["btn_record"] = record, !["btn_stop"] = stop]

\* start_recording, whatever the recording state: the slot of record_btn.clicked
StartRecording ==
    /\ ui = "running"
    /\ clicks < MaxClicks
    /\ clicks' = clicks + 1
    /\ LET filename == FileName(now)
           written  == SendCommand(ser, "1")
       IN  IF ~dirExists
           THEN \* os.make_dirs does not exist: AttributeError
                /\ trace' = <<"start_recording", "AttributeError">>
                /\ UNCHANGED <<recording, csv_file, csv_writer, buttons, errors,
                               files, sent, startIdx>>
           ELSE \E created \in BOOLEAN :
                  IF ~created
                  THEN \* open raises: show_error, return
                       /\ errors' = Append(errors, "Could not create file")
                       /\ trace' = <<"start_recording", "open raised", "show_error">>
                       /\ UNCHANGED <<recording, csv_file, csv_writer, buttons,
                                      files, sent, startIdx>>
                  ELSE /\ files' = (filename :> <<Header>>) @@ files
                       /\ csv_file' = [name |-> filename, closed |-> FALSE]
                       /\ csv_writer' = filename
                       /\ startIdx' = Len(delivered)
                       /\ sent' = sent \o written
                       /\ recording' = TRUE
                       /\ buttons' = SetButtons(buttons, FALSE, TRUE)
                       /\ trace' = <<"start_recording", "open", "header">>
                                   \o [i \in 1..Len(written) |-> "write"]
                                   \o <<"recording">>
                       /\ UNCHANGED errors
    /\ UNCHANGED <<pc, running, ser, reads, queue, delivered, ui, dirExists, now>>

\* stop_recording, whatever the recording state: the slot of stop_btn.clicked
StopRecording ==
    /\ ui = "running"
    /\ clicks < MaxClicks
    /\ clicks' = clicks + 1
    /\ LET written == SendCommand(ser, "0")
       IN  /\ sent' = sent \o written
           /\ csv_file' = None
           /\ csv_writer' = IF csv_file # None THEN None ELSE csv_writer
           /\ recording' = FALSE
           /\ buttons' = SetButtons(buttons, TRUE, FALSE)
           /\ trace' = <<"stop_recording">>
                       \o [i \in 1..Len(written) |-> "write"]
                       \o (IF csv_file # None THEN <<"close">> ELSE <<>>)
                       \o <<"idle">>
    /\ UNCHANGED <<pc, running, ser, reads, queue, delivered, errors, ui, files,
                   dirExists, now, startIdx>>

\* update_display: the slot of data_received, run for the oldest queued emission
UpdateDisplay ==
    /\ ui # "joining"
    /\ queue # <<>>
    /\ Head(queue)[1] = "data"
    /\ LET data == Head(queue)[2]
       IN  /\ delivered' = Append(delivered, data)
           /\ IF recording /\ csv_writer # None
              THEN IF csv_file.closed
                   THEN \* writerow on a closed file: ValueError
                        /\ trace' = <<"update_display", "ValueError">>
                        /\ UNCHANGED files
                   ELSE /\ files' = [files EXCEPT ![csv_writer] =
                                        Append(@, Row(now, data))]
                        /\ trace' = <<"update_display", "writerow">>
              ELSE /\ trace' = <<"update_display">>
                   /\ UNCHANGED files
    /\ queue' = Tail(queue)
    /\ UNCHANGED <<pc, running, ser, reads, recording, csv_file, csv_writer,
                   buttons, errors, ui, dirExists, now, sent, startIdx, clicks>>

\* show_error: the slot of error_occurred
ShowError ==
    /\ ui # "joining"
    /\ queue # <<>>
    /\ Head(queue)[1] = "error"
    /\ errors' = Append(errors, Head(queue)[2])
    /\ trace' = <<"show_error">>
    /\ queue' = Tail(queue)
    /\ UNCHANGED <<pc, running, ser, reads, delivered, recording, csv_file,
                   csv_writer, buttons, ui, files, dirExists, now, sent,
                   startIdx, clicks>>

\* a stop that clears running without waiting for the worker
CloseEventNoWait ==
    /\ ui = "running"
    /\ running
    /\ running' = FALSE
    /\ trace' = <<"closeEvent">>
    /\ UNCHANGED <<pc, ser, reads, queue, delivered, recording, csv_file,
                   csv_writer, buttons, errors, ui, files, dirExists, now, sent,
                   startIdx, clicks>>

\* closeEvent up to the join: worker.stop() clears running and waits
CloseEvent ==
    /\ ui = "running"
    /\ running' = FALSE
    /\ ui' = "joining"
    /\ trace' = <<"closeEvent">>
    /\ UNCHANGED <<pc, ser, reads, queue, delivered, recording, csv_file,
                   csv_writer, buttons, errors, files, dirExists, now, sent,
                   startIdx, clicks>>

\* closeEvent after the join: run has returned, the file is closed
CloseEventJoined ==
    /\ ui = "joining"
    /\ pc \in {"aborted", "done"}
    /\ csv_file' = IF csv_file # None THEN [csv_file EXCEPT !.closed = TRUE]
                   ELSE csv_file
    /\ ui' = "closed"
    /\ trace' = <<"closeEvent", "joined">>
    /\ UNCHANGED <<pc, running, ser, reads, queue, delivered, recording,
                   csv_writer, buttons, errors, files, dirExists, now, sent,
                   startIdx, clicks>>

-----------------------------------------------------------------------------
(* The environment *)

\* the clock advances
Tick ==
    /\ now < MaxTime
    /\ now' = now + 1
    /\ UNCHANGED <<pc, running, ser, reads, queue, ui, dirExists>>
    /\ UNCHANGED guiVars

\* the still empty output directory is removed behind the program's back
RemoveDir ==
    /\ dirExists
    /\ DOMAIN files = {}
    /\ dirExists' = FALSE
    /\ UNCHANGED <<pc, running, ser, reads, queue, ui, now>>
    /\ UNCHANGED guiVars

Next ==
    \/ OpenOk
    \/ OpenFail
    \/ Settle
    \/ PollNoData
    \/ PollRead(DeviceLines)
    \/ PollError
    \/ ExitLoop
    \/ StartRecording
    \/ StopRecording
    \/ UpdateDisplay
    \/ ShowError
    \/ CloseEvent
    \/ CloseEventJoined
    \/ Tick
    \/ RemoveDir

Spec == Init /\ [][Next]_vars

-----------------------------------------------------------------------------
(* Stopping the poller: the worker thread, the delivery of its emissions    *)
(* and closeEvent, without the recording handlers.  The worker thread is    *)
(* scheduled: serial.Serial returns or raises, time.sleep(2) ends, every    *)
(* iteration ends (readline has a timeout of 2 s) so the while test is      *)
(* reached again, and wait() returns once run has returned.                 *)

NextStop ==
    \/ OpenOk
    \/ OpenFail
    \/ Settle
    \/ PollNoData
    \/ PollRead(DeviceLines)
    \/ PollError
    \/ ExitLoop
    \/ UpdateDisplay
    \/ ShowError
    \/ CloseEvent
    \/ CloseEventJoined

SpecStop ==
    /\ Init
    /\ [][NextStop]_vars
    /\ WF_vars(OpenOk \/ OpenFail)
    /\ WF_vars(Settle)
    /\ WF_vars(ExitLoop)
    /\ WF_vars(CloseEventJoined)

-----------------------------------------------------------------------------
(* The parser alone: the polling loop reads one line out of every line over *)
(* a small alphabet, up to MaxLineLen characters.                           *)

ParserAlphabet == {",", "1", ".", "x", " "}
ParserLines == UNION {[1..n -> ParserAlphabet] : n \in 0..MaxLineLen}

InitParse ==
    /\ pc = "loop"
    /\ running = TRUE
    /\ ser = "open"
    /\ reads = <<>>
    /\ queue = <<>>
    /\ delivered = <<>>
    /\ recording = FALSE
    /\ csv_file = None
    /\ csv_writer = None
    /\ buttons = [record_btn |-> TRUE, stop_btn |-> FALSE]
    /\ errors = <<>>
    /\ ui = "running"
    /\ files = <<>>
    /\ dirExists = TRUE
    /\ now = 0
    /\ sent = <<>>
    /\ trace = <<>>
    /\ startIdx = 0
    /\ clicks = 0

ReadOneLine ==
    /\ reads = <<>>
    /\ PollRead(ParserLines)

NextParse == ReadOneLine

SpecParse == InitParse /\ [][NextParse]_vars

-----------------------------------------------------------------------------
(* Vocabulary of the properties *)

Range(s) == {s[i] : i \in 1..Len(s)}

\* the comma-separated fields of a line read, as text
FieldsOf(raw) == Split(Strip(Decode(raw)))

IsNumber(field) == Float(field).ok

\* the reads that returned a line
LinesRead == {i \in 1..Len(reads) : reads[i] # ReadError}

\* the samples waiting in the queue, oldest first
RECURSIVE DataOf(_)
DataOf(q) ==
    IF q = <<>> THEN <<>>
    ELSE IF Head(q)[1] = "data" THEN <<Head(q)[2]>> \o DataOf(Tail(q))
    ELSE DataOf(Tail(q))

\* the samples the lines read so far produce, in reading order
RECURSIVE EmittedOf(_)
EmittedOf(rs) ==
    IF rs = <<>> THEN <<>>
    ELSE IF Head(rs) = ReadError THEN EmittedOf(Tail(rs))
    ELSE ParseLine(Head(rs)) \o EmittedOf(Tail(rs))

Degraded(sample) ==
    /\ sample[2] = PyInt(-1)
    /\ sample[3] = PyInt(-1)
    /\ sample[4] = PyInt(-1)

\* the last UI handler was a start_recording that entered Recording
StartedTrace == trace # <<>> /\ trace[1] = "start_recording" /\ trace[Len(trace)] = "recording"
StoppedTrace == trace # <<>> /\ trace[1] = "stop_recording"

-----------------------------------------------------------------------------
(* Properties *)

\* C1: while a recording started by start_recording is open, its file holds
\* the header row followed by one row per sample delivered since the start,
\* in delivery order, each with that sample's temperature, humidity and
\* pressure (degraded -1 samples included).
C1_CsvIsHeaderPlusSamples ==
    (recording /\ csv_file # None /\ ~csv_file.closed) =>
        LET content == files[csv_file.name]
            n       == Len(delivered) - startIdx
        IN  /\ Len(content) = 1 + n
            /\ content[1] = Header
            /\ \A k \in 1..n :
                  /\ content[1 + k][2] = delivered[startIdx + k][2]
                  /\ content[1 + k][3] = delivered[startIdx + k][3]
                  /\ content[1 + k][4] = delivered[startIdx + k][4]

\* C1 witness: a recording with two samples delivered since the start, one of
\* them degraded, and both rows in the file
C1_Witness ==
    /\ recording /\ csv_file # None /\ ~csv_file.closed
    /\ Len(delivered) - startIdx = 2
    /\ Len(files[csv_file.name]) = 3
    /\ \E k \in 1..Len(delivered) : Degraded(delivered[k])
    /\ \E k \in 1..Len(delivered) : ~Degraded(delivered[k])

\* C2: the buttons mirror the recording state: Recording has Stop enabled and
\* Record disabled, Idle has Record enabled and Stop disabled.
C2_ButtonsMirrorState ==
    /\ recording => (buttons.stop_btn /\ ~buttons.record_btn)
    /\ ~recording => (buttons.record_btn /\ ~buttons.stop_btn)

\* C3: a start_recording that follows a stop_recording opens a file whose name
\* is distinct from and later than the name of every earlier session's file.
C3_NewLaterFile ==
    [][(csv_file = None /\ csv_file' # None) =>
          \A f \in DOMAIN files : f[1] < csv_file'.name[1]]_vars

\* C4: after a start_recording whose file creation failed, the error has been
\* reported and the controller is Idle: recording is false and neither a file
\* nor a writer is held (the failed start wrote no command).
C4_FailedStartLeavesIdle ==
    (trace = <<"start_recording", "open raised", "show_error">>) =>
        /\ errors # <<>>
        /\ errors[Len(errors)] = "Could not create file"
        /\ ~recording
        /\ csv_file = None
        /\ csv_writer = None

\* C5: a start_recording invoked while the output directory does not exist
\* creates the directory and proceeds: unless the file creation itself fails
\* and is reported, the file holds the header and the controller is Recording.
C5_MissingDirIsCreated ==
    [][(clicks' # clicks /\ trace'[1] = "start_recording" /\ ~dirExists) =>
          /\ dirExists'
          /\ \/ errors' # errors
             \/ /\ recording'
                /\ csv_file' # None
                /\ files'[csv_file'.name] = <<Header>>]_vars

\* C6 as stated: every start_recording that enters Recording and every
\* stop_recording has written its command to the device, whatever the state
\* of the poller.
C6_CommandAlwaysWritten ==
    /\ StartedTrace => "write" \in Range(trace)
    /\ StoppedTrace => "write" \in Range(trace)

\* C6 amended: the command is written exactly when the serial port is open.
\* Entering Recording with the port open writes '1' after the header and
\* before the transition; stop_recording with the port open writes '0' before
\* the file is closed; with the port not open (not opened yet, open failed, or
\* closed) nothing is written and the transition happens all the same.
C6_CommandWrittenIffPortOpen ==
    [][(clicks' # clicks) =>
          /\ (trace'[1] = "start_recording" /\ trace'[Len(trace')] = "recording") =>
                IF ser = "open"
                THEN /\ sent' = Append(sent, "1")
                     /\ trace' = <<"start_recording", "open", "header", "write",
                                   "recording">>
                     /\ recording'
                ELSE /\ sent' = sent
                     /\ trace' = <<"start_recording", "open", "header", "recording">>
                     /\ recording'
          /\ (trace'[1] = "stop_recording") =>
                IF ser = "open"
                THEN /\ sent' = Append(sent, "0")
                     /\ trace'[2] = "write"
                     /\ trace'[Len(trace')] = "idle"
                     /\ ~recording'
                ELSE /\ sent' = sent
                     /\ "write" \notin Range(trace')
                     /\ ~recording']_vars

\* C6 witness: a session started and stopped with the port open: '1' then '0'
\* reached the device, the '0' before the file was closed
C6_Witness ==
    /\ trace = <<"stop_recording", "write", "close", "idle">>
    /\ sent = <<"1", "0">>
    /\ ~recording

\* C7: the samples handed to update_display, followed by those still queued,
\* are exactly the samples the lines read produced, in reading order: nothing
\* is reordered, merged, duplicated or skipped on the way to the UI thread.
C7_DeliveredInReadOrder ==
    delivered \o DataOf(queue) = EmittedOf(reads)

\* C7 witness: two different samples were read and both were delivered
C7_Witness ==
    /\ Len(delivered) = 2
    /\ delivered[1] # delivered[2]
    /\ queue = <<>>

\* C8: a line read with exactly 4 fields makes the poller emit exactly one
\* sample: the status with the three parsed values when fields 2-4 are all
\* numbers, the status with -1, -1, -1 otherwise.
C8_FourFieldsEmitOneSample ==
    (Len(reads) = 1 /\ Len(FieldsOf(reads[1])) = 4) =>
        LET f == FieldsOf(reads[1])
        IN  /\ Len(queue) = 1
            /\ queue[1][1] = "data"
            /\ queue[1][2] =
                  IF IsNumber(f[2]) /\ IsNumber(f[3]) /\ IsNumber(f[4])
                  THEN <<f[1], Float(f[2]).val, Float(f[3]).val, Float(f[4]).val>>
                  ELSE <<f[1], PyInt(-1), PyInt(-1), PyInt(-1)>>

\* C8 witness: a line with a status and three numeric fields was read and its
\* sample emitted
C8_Witness ==
    /\ Len(reads) = 1
    /\ Len(FieldsOf(reads[1])) = 4
    /\ FieldsOf(reads[1])[1] # <<>>
    /\ \A k \in 2..4 : IsNumber(FieldsOf(reads[1])[k])
    /\ Len(queue) = 1
    /\ ~Degraded(queue[1][2])

\* C9: a line read whose number of fields is not 4 (the empty line included)
\* emits no sample and no error, and the loop goes on polling.
C9_OtherFieldCountsEmitNothing ==
    (Len(reads) = 1 /\ Len(FieldsOf(reads[1])) # 4) =>
        /\ queue = <<>>
        /\ errors = <<>>
        /\ pc = "loop"
        /\ running

\* C9 witness: the empty line was read and nothing was emitted
C9_Witness ==
    /\ reads = << <<>> >>
    /\ queue = <<>>
    /\ pc = "loop"

\* C10 as stated: the number of samples emitted equals the number of lines read.
C10_OneSamplePerLine ==
    Len(delivered) + Len(DataOf(queue)) = Cardinality(LinesRead)

\* C10 amended: the number of samples emitted equals the number of lines read
\* that have exactly 4 fields; a line with another number of fields emits none.
C10_OneSamplePerFourFieldLine ==
    Len(delivered) + Len(DataOf(queue)) =
        Cardinality({i \in LinesRead : Len(FieldsOf(reads[i])) = 4})

\* C10 witness: two lines were read, a 4-field line with a non-numeric field
\* and a line with fewer fields; one degraded sample was emitted
C10_Witness ==
    /\ Cardinality(LinesRead) = 2
    /\ \E i \in LinesRead : Len(FieldsOf(reads[i])) # 4
    /\ Len(delivered) + Len(DataOf(queue)) = 1
    /\ \A k \in 1..Len(delivered) : Degraded(delivered[k])
    /\ \A k \in 1..Len(DataOf(queue)) : Degraded(DataOf(queue)[k])

\* the open failures reported so far: shown already, or queued for show_error
OpenFailures ==
    Cardinality({i \in 1..Len(errors) : errors[i] = "open failed"})
    + Cardinality({i \in 1..Len(queue) : queue[i] = <<"error", "open failed">>})

\* C11: once opening the serial connection has failed, exactly one error is
\* reported, the worker has returned without entering the loop or opening
\* again, and no line is read and no sample emitted, then or later.
C11_OpenFailureIsFatal ==
    (OpenFailures >= 1) =>
        /\ OpenFailures = 1
        /\ pc = "aborted"
        /\ ser = "none"
        /\ reads = <<>>
        /\ delivered = <<>>
        /\ DataOf(queue) = <<>>

\* C11 witness: the open failed and its error has been shown to the user
C11_Witness ==
    /\ pc = "aborted"
    /\ errors = <<"open failed">>
    /\ queue = <<>>
    /\ reads = <<>>

\* C12: a read error emits neither a sample nor an error and does not end the
\* loop: the worker stays in the loop until it is stopped, and the samples
\* emitted are exactly those of the lines read in the other iterations,
\* later ones included.
C12_ReadErrorsSwallowed ==
    (ReadError \in Range(reads)) =>
        /\ pc \in {"loop", "done"}
        /\ running => pc = "loop"
        /\ \A i \in 1..Len(queue) : queue[i][1] = "data"
        /\ errors \in Seq({"Could not create file"})
        /\ delivered \o DataOf(queue) =
              EmittedOf(SelectSeq(reads, LAMBDA r : r # ReadError))

\* C12 witness: a read error, then a well-formed line whose sample was
\* emitted, with the loop still running
C12_Witness ==
    /\ reads = <<ReadError, LineOK>>
    /\ Len(delivered) + Len(DataOf(queue)) = 1
    /\ pc = "loop"
    /\ running

\* C13: once stop has been invoked (closeEvent is inside worker.stop()), in
\* whatever phase the worker is, the worker leaves run and the join returns;
\* when it has returned the worker has terminated, the port is not open, and
\* from then on nothing is read and nothing is emitted.
C13_StopTerminatesWorker ==
    /\ (ui = "joining") ~> (ui = "closed")
    /\ [](ui = "closed" =>
            /\ pc \in {"aborted", "done"}
            /\ ~running
            /\ ser # "open"
            /\ (pc = "done" => ser = "closed"))
    /\ [][ui = "closed" =>
            /\ reads' = reads
            /\ Len(queue') <= Len(queue)
            /\ pc' = pc]_vars

\* C13 witness: stop was invoked while the worker was polling; the join has
\* returned, the worker is done and the port closed, a sample still queued
C13_Witness ==
    /\ ui = "closed"
    /\ pc = "done"
    /\ ser = "closed"
    /\ reads # <<>>
    /\ queue # <<>>

\* a step in which the UI thread runs send_command
SendCommandStep ==
    /\ clicks' # clicks
    /\ \/ trace'[1] = "stop_recording"
       \/ trace'[Len(trace')] = "recording"

\* C14 as stated: the UI context never tests or writes the serial handle
\* while the poller thread is in its polling loop reading it.
C14_SerialOnlyPollerThread ==
    [][SendCommandStep => pc # "loop"]_vars

\* C14 amended: the CSV sink is touched only by steps of the UI thread, and
\* the serial handle is opened and closed only by steps of the poller thread;
\* the UI thread does test and write the handle in send_command, without a
\* lock, while the poller is alive and polling, but never while the poller
\* closes it: the poller closes the port only after closeEvent has cleared
\* running, while the UI thread is blocked in wait().
C14_CloseNeverOverlapsSendCommand ==
    [][/\ (ser' # ser) => (pc' # pc /\ ~SendCommandStep)
       /\ (ser = "open" /\ ser' = "closed") => (ui = "joining" /\ ui' = "joining")
       /\ SendCommandStep => (ui = "running" /\ running /\ ser' = ser /\ pc' = pc)
       /\ (sent' # sent) => (SendCommandStep /\ ser = "open" /\ pc \in {"settle", "loop"})
       /\ (files' # files \/ csv_file' # csv_file \/ csv_writer' # csv_writer) =>
             (pc' = pc /\ reads' = reads /\ ser' = ser)]_vars

\* C14 witness: the UI thread wrote to the handle the poller thread read
\* from, and the poller has closed it since
C14_Witness ==
    /\ sent # <<>>
    /\ reads # <<>>
    /\ ser = "closed"
    /\ ui = "closed"

\* C15: start_recording opens a file only when the controller is Idle and
\* stop_recording closes one only when it is Recording, so an open sink is
\* never replaced without being closed.
C15_IdleRecordingIdle ==
    [][(clicks' # clicks) =>
          /\ (trace'[1] = "start_recording" /\ "open" \in Range(trace')) =>
                (~recording /\ csv_file = None)
          /\ (trace'[1] = "stop_recording" /\ "close" \in Range(trace')) =>
                recording]_vars

\* C16: an update_display that runs when the sink is gone or closed (after
\* stop_recording or closeEvent) only displays: it triggers no write.
C16_NoWriteToClosedSink ==
    (trace # <<>> /\ trace[1] = "update_display"
        /\ (csv_file = None \/ csv_file.closed)) =>
        trace = <<"update_display">>

====
